---- MODULE Spec2Model ----
(***************************************************************************)
(* A model of fast-parser: the grammar validator (Grammar.check), the      *)
(* action binder (Grammar.actions) and the matching engine (Grammar.match  *)
(* with the seven matcher kinds and the furthest-failure record of Source).*)
(*                                                                         *)
(* Strings of the parsed input are sequences of one-character strings and  *)
(* positions are 0-based as in the source.  A regular expression is a      *)
(* character class with a minimum count of 1 or 0, matched greedily at     *)
(* the cursor like a sticky RegExp.  User functions are pure.              *)
(***************************************************************************)
EXTENDS Integers, Sequences, FiniteSets, TLC

VARIABLES
    defs,           \* the grammar description handed to createParser
    pc,             \* "new" | "ready" | "failed": life cycle of the parser
    rules,          \* Grammar.rules, in insertion order (fn bindings inside)
    actionsCalled,  \* Grammar.actionsCalled
    diag,           \* the error of parse(): the diagnostic of Grammar.check
    src,            \* Grammar.src: the Source of the most recent match
    out,            \* what the most recent call returned or threw
    lastInput,      \* the argument of the most recent match call
    lexer           \* a Lexer of the grammar description language

vars == <<defs, pc, rules, diag, actionsCalled, src, out, lastInput, lexer>>

\* const r = v followed by Op(r): v is evaluated once
Let(v, Op(_)) == CHOOSE w \in {Op(r) : r \in {v}} : TRUE

Min(a, b) == IF a < b THEN a ELSE b
Max(a, b) == IF a > b THEN a ELSE b

(***************************************************************************)
(* Values produced by matchers and by user replacement functions.          *)
(***************************************************************************)
Null == [t |-> "null"]
Tok(text, pos) == [t |-> "tok", text |-> text, pos |-> pos]
List(items) == [t |-> "list", items |-> items]
App(tbl, name, args) == [t |-> "app", tbl |-> tbl, name |-> name, args |-> args]

(***************************************************************************)
(* Function slots of Sequence.fn and Predicate.fn.                         *)
(***************************************************************************)
Undefined == [f |-> "undefined"]
singleItemReplacementFn == [f |-> "single"]
defaultReplacementFn == [f |-> "default"]
UserFn(tbl, name) == [f |-> "user", tbl |-> tbl, name |-> name]

(***************************************************************************)
(* The matcher kinds (constructors of grammar.ts).                         *)
(***************************************************************************)
NoMatcher == [kind |-> "none"]
Text(text, skipWS) == [kind |-> "Text", text |-> text, skipWS |-> skipWS]
Regex(cls, min, re, skipWS) ==
    [kind |-> "Regex", cls |-> cls, min |-> min, re |-> re, skipWS |-> skipWS]
Symbol(name) == [kind |-> "Symbol", rule |-> name]
Sequence(items, repl) ==
    [kind |-> "Sequence", items |-> items, repl |-> repl, fn |-> Undefined]
Choice(matchers) == [kind |-> "Choice", matchers |-> matchers]
Repeat(base, zeroOK, multipleOK) ==
    [kind |-> "Repeat", base |-> base, zeroOK |-> zeroOK, multipleOK |-> multipleOK]
Predicate(base, name) ==
    [kind |-> "Predicate", base |-> base, name |-> name, fn |-> Undefined]

RECURSIVE Keep(_)
Keep(m) ==
    CASE m.kind = "Text" -> FALSE
      [] m.kind = "Predicate" -> Keep(m.base)
      [] OTHER -> TRUE

Item(matcher, keep) == [matcher |-> matcher, keep |-> keep]
ItemDefault(matcher) == Item(matcher, Keep(matcher))

UNKNOWN == "UNKNOWN"
NO == "NO"
YES == "YES"

NoDescription == ""
Rule(name) ==
    [name |-> name, matcher |-> NoMatcher, description |-> NoDescription,
     skipWS |-> TRUE, checked |-> FALSE, canMatchNothing |-> UNKNOWN]

RuleIndex(G, name) == CHOOSE i \in 1..Len(G) : G[i].name = name
RuleOf(G, name) == G[RuleIndex(G, name)]
HasRule(G, name) == \E i \in 1..Len(G) : G[i].name = name

(***************************************************************************)
(* Source: the input, the cursor and the furthest-failure record.          *)
(* ab records an abnormal end of the traversal: "TypeError" (a call of an  *)
(* unbound fn), "loop" (a Repeat iteration that repeats forever) or        *)
(* "overflow" (a rule re-entered at the same cursor).  calls is the log of *)
(* predicate calls: {value, context passed, values kept so far}.  trace is *)
(* the log of what the matchers did, one event per completed step.         *)
(***************************************************************************)
NewLine == "\n"
WhiteSpace == {" ", NewLine}

NewSource(s) ==
    [s |-> s, len |-> Len(s), pos |-> 0, err |-> <<>>, errPos |-> -1,
     calls |-> <<>>, trace |-> <<>>, ab |-> ""]

NoSource == [s |-> <<>>, len |-> 0, pos |-> 0, err |-> <<>>, errPos |-> -1,
             calls |-> <<>>, trace |-> <<>>, ab |-> "none"]

RECURSIVE RunEnd(_, _, _)
\* the end of the longest run of characters of cls starting at pos
RunEnd(s, pos, cls) ==
    IF pos < Len(s) /\ s[pos + 1] \in cls THEN RunEnd(s, pos + 1, cls) ELSE pos

SkipWS(S) == [S EXCEPT !.pos = RunEnd(S.s, S.pos, WhiteSpace)]

Hole == [e |-> "hole"]
SetLength(a, n) == [i \in 1..n |-> IF i <= Len(a) THEN a[i] ELSE Hole]

\* Source.error without the equal-position case: a failure is recorded only
\* when it is strictly further right than the recorded one
SourceErrorStrict(S, what, keep) ==
    IF S.pos > S.errPos
    THEN [S EXCEPT !.err = <<what>>, !.errPos = S.pos]
    ELSE S

SourceError(S, what, keep) ==
    IF S.pos >= S.errPos
    THEN IF S.pos > S.errPos
         THEN [S EXCEPT !.err = <<what>>, !.errPos = S.pos]
         ELSE IF keep >= 0
              THEN [S EXCEPT !.err = Append(SetLength(S.err, keep), what)]
              ELSE [S EXCEPT !.err = Append(S.err, what)]
    ELSE S

ErrorCount(S) == IF S.pos = S.errPos THEN Len(S.err) ELSE 0

RECURSIVE Str(_)
Str(chars) == IF chars = <<>> THEN "" ELSE Head(chars) \o Str(Tail(chars))

Terminal(who, str) == [e |-> "terminal", who |-> who, str |-> str]
PlainString(str) == [e |-> "string", str |-> str]
PredicateFailure(msg, pos) == [e |-> "pf", msg |-> msg, pos |-> pos]

TextExpectation(m) == "'" \o Str(m.text) \o "'"


(***************************************************************************)
(* Action tables handed to Grammar.actions.  A replacement function is     *)
(* identified by its table and name and builds App(tbl, name, args).  A    *)
(* predicate function has one of the behaviours below.                     *)
(***************************************************************************)
Accept == [e |-> "accept"]

CallPredicate(fn, value, context) ==
    CASE fn.beh = "accept" -> Accept
      [] fn.beh = "string" -> PlainString("p")
      [] fn.beh = "rich" ->
            PredicateFailure("always fail", IF value.t = "tok" THEN value.pos ELSE 0)
      [] fn.beh = "onlyA" ->
            IF value.t = "tok" /\ value.text = <<"a">> THEN Accept
            ELSE PlainString("p")

PredFn(tbl, name, beh) == [f |-> "user", tbl |-> tbl, name |-> name, beh |-> beh]

(***************************************************************************)
(* Matcher.match for the seven kinds.  A result is {ok, val, src}; ok =    *)
(* FALSE is the noMatch sentinel.                                          *)
(***************************************************************************)
Ok(v, S) == [ok |-> TRUE, val |-> v, src |-> S]
NoMatch(S) == [ok |-> FALSE, val |-> Null, src |-> S]
Abort(S, why) == NoMatch([S EXCEPT !.ab = why])
UndefinedValue == [t |-> "undefined"]

RECURSIVE MatchM(_, _, _, _, _)
RECURSIVE SequenceLoop(_, _, _, _, _, _, _)
RECURSIVE ChoiceLoop(_, _, _, _, _)
RECURSIVE RepeatLoop(_, _, _, _, _)

\* Text.match that never skips whitespace after the terminal
TextMatchNoSkip(m, S) ==
    IF SubSeq(S.s, S.pos + 1, Min(S.pos + Len(m.text), S.len)) = m.text
    THEN Ok(Tok(m.text, S.pos), [S EXCEPT !.pos = S.pos + Len(m.text)])
    ELSE NoMatch(SourceError(S, Terminal("Text", TextExpectation(m)), -1))

TextMatch(m, S) ==
    LET pos == S.pos
        npos == pos + Len(m.text)
    IN  IF SubSeq(S.s, pos + 1, Min(npos, S.len)) = m.text
        THEN LET S1 == [S EXCEPT !.pos = npos]
             IN  Ok(Tok(m.text, pos), IF m.skipWS THEN SkipWS(S1) ELSE S1)
        ELSE NoMatch(SourceError(S, Terminal("Text", TextExpectation(m)), -1))

RegexMatch(m, S) ==
    LET pos == S.pos
        lastIndex == RunEnd(S.s, pos, m.cls)
    IN  IF lastIndex - pos >= m.min
        THEN LET S1 == [S EXCEPT !.pos = lastIndex]
             IN  Ok(Tok(SubSeq(S.s, pos + 1, lastIndex), pos),
                    IF m.skipWS THEN SkipWS(S1) ELSE S1)
        ELSE NoMatch(SourceError(S, Terminal("Regex", m.re), -1))

Event(S, e) == [S EXCEPT !.trace = Append(@, e)]

\* the failure of a described rule: the expectations already recorded at the
\* position of the failure (before), those its body recorded (body) and the
\* list after the description was recorded (after)
DescribedFailure(S, R, R1, description) ==
    [ev |-> "described", description |-> description, pos |-> R.pos,
     before |-> IF S.errPos = R.pos THEN {S.err[i] : i \in 1..Len(S.err)} ELSE {},
     body |-> IF R.errPos > S.errPos
              THEN {R.err[i] : i \in 1..Len(R.err)}
              ELSE {R.err[i] : i \in (Len(S.err) + 1)..Len(R.err)},
     after |-> R1.err]

SymbolMatch(G, m, S, act) ==
    LET rule == RuleOf(G, m.rule)
        described == rule.description # NoDescription
        keepErrors == IF described THEN ErrorCount(S) ELSE -1
        S1 == IF rule.skipWS THEN SkipWS(S) ELSE S
        frame == <<m.rule, S.pos>>
    IN  IF frame \in act
        THEN Abort(S, "overflow")
        ELSE Let(MatchM(G, rule.matcher, S1, act \cup {frame}, <<>>),
                 LAMBDA r :
                   IF r.src.ab # "" THEN r
                   ELSE IF ~r.ok /\ described
                   THEN Let(SourceError(r.src,
                                Terminal("Symbol", rule.description), keepErrors),
                            LAMBDA R1 :
                              NoMatch(Event(R1, DescribedFailure(S, r.src, R1,
                                                  rule.description))))
                   ELSE r)

ApplyFn(fn, res, S) ==
    CASE fn.f = "undefined" -> Abort(S, "TypeError")
      [] fn.f = "single" -> Ok(IF res = <<>> THEN UndefinedValue ELSE res[1], S)
      [] fn.f = "default" -> Ok(List(res), S)
      [] fn.f = "user" -> Ok(App(fn.tbl, fn.name, res), S)

\* what a Sequence returned: its replacement name, how many of its items
\* are kept, the values it collected and the value it returned
SequenceValue(m, res, val) ==
    [ev |-> "sequence", repl |-> m.repl,
     keptItems |-> Cardinality({i \in 1..Len(m.items) : m.items[i].keep}),
     res |-> res, val |-> val]

SequenceLoop(G, m, i, res, opos, S, act) ==
    IF i > Len(m.items)
    THEN Let(ApplyFn(m.fn, res, S),
             LAMBDA r : IF r.ok /\ r.src.ab = ""
                        THEN Ok(r.val, Event(r.src, SequenceValue(m, res, r.val)))
                        ELSE r)
    ELSE Let(MatchM(G, m.items[i].matcher, S, act, res),
             LAMBDA r :
               IF r.src.ab # "" THEN r
               ELSE IF ~r.ok THEN NoMatch([r.src EXCEPT !.pos = opos])
               ELSE SequenceLoop(G, m, i + 1,
                                 IF m.items[i].keep THEN Append(res, r.val) ELSE res,
                                 opos, r.src, act))

SequenceMatch(G, m, S, act) == SequenceLoop(G, m, 1, <<>>, S.pos, S, act)

\* one alternative tried by a Choice: which Choice (its matchers and the
\* number of rules being matched around it), the alternative's index, the
\* cursor it started from and what it returned
Alternative(matchers, act, i, S, r) ==
    [ev |-> "alternative", matchers |-> matchers, depth |-> Cardinality(act),
     i |-> i, pos |-> S.pos, ok |-> r.ok, val |-> r.val]

\* what a Choice returned, the cursor it was entered at and the length of
\* the log at that time
ChoiceValue(m, act, S, r) ==
    [ev |-> "choice", matchers |-> m.matchers, depth |-> Cardinality(act),
     pos |-> S.pos, from |-> Len(S.trace), ok |-> r.ok, val |-> r.val]

\* Choice.match that tries the alternatives from the last to the first
ChoiceLoopBackwards(G, matchers, i, S, act) ==
    IF i > Len(matchers)
    THEN NoMatch(S)
    ELSE Let(MatchM(G, matchers[Len(matchers) + 1 - i], S, act, <<>>),
             LAMBDA r :
               IF r.src.ab # "" THEN r
               ELSE Let(Event(r.src, Alternative(matchers, act,
                                                 Len(matchers) + 1 - i, S, r)),
                        LAMBDA R1 :
                          IF r.ok THEN Ok(r.val, R1)
                          ELSE ChoiceLoop(G, matchers, i + 1, R1, act)))

ChoiceLoop(G, matchers, i, S, act) ==
    IF i > Len(matchers)
    THEN NoMatch(S)
    ELSE Let(MatchM(G, matchers[i], S, act, <<>>),
             LAMBDA r :
               IF r.src.ab # "" THEN r
               ELSE Let(Event(r.src, Alternative(matchers, act, i, S, r)),
                        LAMBDA R1 :
                          IF r.ok THEN Ok(r.val, R1)
                          ELSE ChoiceLoop(G, matchers, i + 1, R1, act)))

ChoiceMatch(G, m, S, act) ==
    Let(ChoiceLoop(G, m.matchers, 1, S, act),
        LAMBDA r :
          IF r.src.ab # "" THEN r
          ELSE [r EXCEPT !.src = Event(r.src, ChoiceValue(m, act, S, r))])

\* Repeat.match that returns the list even when '+' collected nothing
RepeatResultList(m, matches, S) == Ok(List(matches), S)

RepeatResult(m, matches, S) ==
    IF ~m.zeroOK /\ matches = <<>> THEN NoMatch(S) ELSE Ok(List(matches), S)

\* one attempt of a Repeat's base: which Repeat (its base and the number of
\* rules being matched around it), the cursor the attempt started from and
\* what it returned
Iteration(m, act, S, r) ==
    [ev |-> "iteration", base |-> m.base, depth |-> Cardinality(act),
     pos |-> S.pos, ok |-> r.ok, val |-> r.val]

\* what a Repeat returned, the length of the log when it was entered and
\* whether it left the cursor at the end of input
RepeatValue(m, act, S, r) ==
    [ev |-> "repeat", base |-> m.base, depth |-> Cardinality(act),
     zeroOK |-> m.zeroOK, multipleOK |-> m.multipleOK, from |-> Len(S.trace),
     ok |-> r.ok, val |-> r.val, atEnd |-> r.src.pos = r.src.len]

\* An iteration is a function of the cursor alone (the input is fixed and the
\* user functions are pure), so an iteration that matched without moving the
\* cursor, away from the end of input, repeats forever: ab = "loop".
RepeatLoop(G, m, matches, S, act) ==
    IF S.pos = S.len /\ (m.zeroOK \/ matches # <<>>)
    THEN RepeatResult(m, matches, S)
    ELSE Let(MatchM(G, m.base, S, act, <<>>),
             LAMBDA r :
               IF r.src.ab # "" THEN r
               ELSE Let(Event(r.src, Iteration(m, act, S, r)),
                        LAMBDA R1 :
                          IF ~r.ok THEN RepeatResult(m, matches, R1)
                          ELSE IF ~m.multipleOK
                          THEN RepeatResult(m, Append(matches, r.val), R1)
                          ELSE IF R1.pos = S.pos /\ R1.pos # R1.len
                          THEN Abort(R1, "loop")
                          ELSE RepeatLoop(G, m, Append(matches, r.val), R1, act)))

RepeatMatch(G, m, S, act) ==
    Let(RepeatLoop(G, m, <<>>, S, act),
        LAMBDA r :
          IF r.src.ab # "" THEN r
          ELSE [r EXCEPT !.src = Event(r.src, RepeatValue(m, act, S, r))])

PredicateContext(kept) == <<>>

PredicateMatch(G, m, S, act, kept) ==
    Let(MatchM(G, m.base, S, act, <<>>),
        LAMBDA r :
          IF r.src.ab # "" \/ ~r.ok THEN r
          ELSE IF m.fn.f = "undefined" THEN Abort(r.src, "TypeError")
          ELSE LET context == PredicateContext(kept)
                   err == CallPredicate(m.fn, r.val, context)
                   S1 == [r.src EXCEPT !.calls = Append(@,
                            [name |-> m.name, value |-> r.val,
                             context |-> context, kept |-> kept])]
               IN  IF err # Accept
                   THEN NoMatch(SourceError([S1 EXCEPT !.pos = S.pos], err, -1))
                   ELSE Ok(r.val, S1))

MatchM(G, m, S, act, kept) ==
    IF S.ab # "" THEN NoMatch(S)
    ELSE CASE m.kind = "Text" -> TextMatch(m, S)
           [] m.kind = "Regex" -> RegexMatch(m, S)
           [] m.kind = "Symbol" -> SymbolMatch(G, m, S, act)
           [] m.kind = "Sequence" -> SequenceMatch(G, m, S, act)
           [] m.kind = "Choice" -> ChoiceMatch(G, m, S, act)
           [] m.kind = "Repeat" -> RepeatMatch(G, m, S, act)
           [] m.kind = "Predicate" -> PredicateMatch(G, m, S, act, kept)
           [] m.kind = "none" -> Abort(S, "TypeError")

(***************************************************************************)
(* errorMessage of the lexer module and Source.message.                    *)
(***************************************************************************)
RECURSIVE IndexOf(_, _, _)
IndexOf(s, ch, from) ==
    IF from >= Len(s) THEN -1
    ELSE IF s[from + 1] = ch THEN from ELSE IndexOf(s, ch, from + 1)

\* String.prototype.substring: arguments clamped to [0, length], swapped if needed
Substring(s, a, b) ==
    LET ca == Max(0, Min(a, Len(s)))
        cb == Max(0, Min(b, Len(s)))
    IN  SubSeq(s, Min(ca, cb) + 1, Max(ca, cb))

RECURSIVE ErrorLine(_, _, _, _, _)

\* the loop of errorMessage running on while pos <= errpos
ErrorLinePast(s, errpos, lpos, pos, ln) ==
    IF pos <= errpos
    THEN LET p == IndexOf(s, NewLine, pos + 1)
         IN  IF p < 0
             THEN [lpos |-> pos + 1, pos |-> Len(s), ln |-> ln + 1]
             ELSE ErrorLine(s, errpos, pos + 1, p, ln + 1)
    ELSE [lpos |-> lpos, pos |-> pos, ln |-> ln]

ErrorLine(s, errpos, lpos, pos, ln) ==
    IF pos < errpos
    THEN LET p == IndexOf(s, NewLine, pos + 1)
         IN  IF p < 0
             THEN [lpos |-> pos + 1, pos |-> Len(s), ln |-> ln + 1]
             ELSE ErrorLine(s, errpos, pos + 1, p, ln + 1)
    ELSE [lpos |-> lpos, pos |-> pos, ln |-> ln]

errorMessage(msg, s, errpos) ==
    LET l == ErrorLine(s, errpos, 0, -1, 0)
    IN  [m |-> "message", msg |-> msg, ln |-> l.ln,
         line |-> Substring(s, l.lpos, l.pos),
         indent |-> Max(0, errpos - l.lpos)]

Expected(expect) == [head |-> "expected", expect |-> expect]
Custom(text) == [head |-> text, expect |-> {}]

\* The loop of Source.message over err.  The sorted, duplicate-free list of
\* expectation strings is represented by the set of its elements.
RECURSIVE Collect(_, _, _)
Collect(err, i, expect) ==
    IF i > Len(err) THEN [t |-> "expect", expect |-> expect]
    ELSE LET eitem == err[i]
         IN  CASE eitem.e = "string" -> Collect(err, i + 1, expect \cup {eitem.str})
               [] eitem.e = "hole" -> [t |-> "TypeError"]
               [] eitem.e = "pf" -> [t |-> "pf", pf |-> eitem]
               [] eitem.e = "terminal" -> Collect(err, i + 1, expect \cup {eitem.str})

Thrown(what) == [m |-> "thrown", what |-> what]

Message(S) ==
    Let(Collect(S.err, 1, {}),
        LAMBDA c :
          CASE c.t = "TypeError" -> Thrown("TypeError")
            [] c.t = "pf" -> errorMessage(Custom(c.pf.msg), S.s, c.pf.pos)
            [] c.t = "expect" -> errorMessage(Expected(c.expect), S.s, S.errPos))

CustomMessage(S, msg, pos) == errorMessage(Custom(msg), S.s, pos)


(***************************************************************************)
(* The static-analysis queries of the matchers and Grammar.check.          *)
(***************************************************************************)
RECURSIVE CanMatchNothing(_, _)
RECURSIVE ChoiceCMN(_, _, _, _)
RECURSIVE SequenceCMN(_, _, _, _)

ChoiceCMN(G, matchers, i, rv) ==
    IF i > Len(matchers) THEN rv
    ELSE Let(CanMatchNothing(G, matchers[i]),
             LAMBDA c :
               IF c = YES THEN YES
               ELSE ChoiceCMN(G, matchers, i + 1, IF c = UNKNOWN THEN UNKNOWN ELSE rv))

SequenceCMN(G, items, i, rv) ==
    IF i > Len(items) THEN rv
    ELSE Let(CanMatchNothing(G, items[i].matcher),
             LAMBDA c :
               IF c = NO THEN NO
               ELSE SequenceCMN(G, items, i + 1, IF c = UNKNOWN THEN UNKNOWN ELSE rv))

RegexCMN(m) == IF m.min = 0 THEN YES ELSE NO

RepeatCMN(G, m) == IF m.zeroOK THEN YES ELSE CanMatchNothing(G, m.base)

CanMatchNothing(G, m) ==
    CASE m.kind = "Text" -> NO
      [] m.kind = "Regex" -> RegexCMN(m)
      [] m.kind = "Symbol" -> RuleOf(G, m.rule).canMatchNothing
      [] m.kind = "Choice" -> ChoiceCMN(G, m.matchers, 1, NO)
      [] m.kind = "Sequence" -> SequenceCMN(G, m.items, 1, YES)
      [] m.kind = "Repeat" -> RepeatCMN(G, m)
      [] m.kind = "Predicate" -> CanMatchNothing(G, m.base)

RECURSIVE HasEmptyRepeat(_, _)

RepeatHasEmptyRepeat(G, m) == CanMatchNothing(G, m.base) # NO

HasEmptyRepeat(G, m) ==
    CASE m.kind \in {"Text", "Regex", "Symbol"} -> FALSE
      [] m.kind = "Choice" ->
            \E i \in 1..Len(m.matchers) : HasEmptyRepeat(G, m.matchers[i])
      [] m.kind = "Sequence" ->
            \E i \in 1..Len(m.items) : HasEmptyRepeat(G, m.items[i].matcher)
      [] m.kind = "Repeat" -> RepeatHasEmptyRepeat(G, m)
      [] m.kind = "Predicate" -> HasEmptyRepeat(G, m.base)

\* SymbolSet: a JavaScript object used as a set; its keys keep insertion order
SetKey(set, name, v) ==
    IF \E i \in 1..Len(set) : set[i].name = name
    THEN [i \in 1..Len(set) |->
            IF set[i].name = name THEN [name |-> name, on |-> v] ELSE set[i]]
    ELSE Append(set, [name |-> name, on |-> v])
KeyOn(set, name) == \E i \in 1..Len(set) : set[i].name = name /\ set[i].on
Keys(set) == [i \in 1..Len(set) |-> set[i].name]

\* the state threaded through the leftReferences walk:
\* checked (Rule.checked of every rule), rules (the SymbolSet), failures
LR(res, st) == [res |-> res, st |-> st]

RECURSIVE LeftReferences(_, _, _)
RECURSIVE ChoiceLR(_, _, _, _)
RECURSIVE SequenceLR(_, _, _, _)

SymbolPushFailures(st) == [st EXCEPT !.failures = @ \o Keys(st.rules)]

SymbolLeave(st, name) == [st EXCEPT !.rules = SetKey(@, name, FALSE)]

SymbolLeftReferences(G, m, st) ==
    IF KeyOn(st.rules, m.rule)
    THEN LR(TRUE, SymbolPushFailures(st))
    ELSE IF m.rule \in st.checked
    THEN LR(FALSE, st)
    ELSE LET st1 == [st EXCEPT !.checked = @ \cup {m.rule},
                               !.rules = SetKey(@, m.rule, TRUE)]
         IN  Let(LeftReferences(G, RuleOf(G, m.rule).matcher, st1),
                 LAMBDA r : LR(r.res, SymbolLeave(r.st, m.rule)))

ChoiceLR(G, matchers, i, st) ==
    IF i > Len(matchers) THEN LR(FALSE, st)
    ELSE Let(LeftReferences(G, matchers[i], st),
             LAMBDA r : IF r.res THEN r ELSE ChoiceLR(G, matchers, i + 1, r.st))

\* Sequence.leftReferences looking at item 0 only
SequenceLRFirst(G, items, i, st) ==
    IF i > Len(items) THEN LR(FALSE, st)
    ELSE LeftReferences(G, items[i].matcher, st)

\* Sequence.leftReferences going on past an item that cannot be empty
RECURSIVE SequenceLRAll(_, _, _, _)
SequenceLRAll(G, items, i, st) ==
    IF i > Len(items) THEN LR(FALSE, st)
    ELSE Let(LeftReferences(G, items[i].matcher, st),
             LAMBDA r : IF r.res THEN r ELSE SequenceLRAll(G, items, i + 1, r.st))

\* Sequence.leftReferences
SequenceLR(G, items, i, st) ==
    IF i > Len(items) THEN LR(FALSE, st)
    ELSE Let(LeftReferences(G, items[i].matcher, st),
             LAMBDA r :
               IF r.res THEN r
               ELSE IF CanMatchNothing(G, items[i].matcher) # YES THEN LR(FALSE, r.st)
               ELSE SequenceLR(G, items, i + 1, r.st))

LeftReferences(G, m, st) ==
    CASE m.kind \in {"Text", "Regex"} -> LR(FALSE, st)
      [] m.kind = "Symbol" -> SymbolLeftReferences(G, m, st)
      [] m.kind = "Choice" -> ChoiceLR(G, m.matchers, 1, st)
      [] m.kind = "Sequence" -> SequenceLR(G, m.items, 1, st)
      [] m.kind \in {"Repeat", "Predicate"} -> LeftReferences(G, m.base, st)

\* the undefined-symbol scan stopping at the first symbol with no rule
RECURSIVE UndefinedSymbolsFirst(_, _)
UndefinedSymbolsFirst(G, i) ==
    IF i > Len(G) THEN <<>>
    ELSE IF G[i].matcher = NoMatcher THEN <<G[i].name>>
    ELSE UndefinedSymbolsFirst(G, i + 1)

\* grammar.ts 134-139: the symbols with no rule, in table order
RECURSIVE UndefinedSymbols(_, _)
UndefinedSymbols(G, i) ==
    IF i > Len(G) THEN <<>>
    ELSE (IF G[i].matcher = NoMatcher THEN <<G[i].name>> ELSE <<>>)
            \o UndefinedSymbols(G, i + 1)

\* grammar.ts 149-159: one sweep of the nullability loop over the rules
RECURSIVE Sweep(_, _, _, _)
Sweep(G, i, progress, undefCount) ==
    IF i > Len(G)
    THEN [rules |-> G, progress |-> progress, undefCount |-> undefCount]
    ELSE IF G[i].canMatchNothing = UNKNOWN
    THEN Let(CanMatchNothing(G, G[i].matcher),
             LAMBDA cmn :
               IF cmn # UNKNOWN
               THEN Sweep([G EXCEPT ![i].canMatchNothing = cmn], i + 1, TRUE,
                          undefCount - 1)
               ELSE Sweep(G, i + 1, progress, undefCount))
    ELSE Sweep(G, i + 1, progress, undefCount)

\* the sweeps of grammar.ts 146-159 without the default of 160-167
RECURSIVE FixpointUndecided(_, _, _)
FixpointUndecided(G, undefCount, progress) ==
    IF undefCount > 0 /\ progress
    THEN Let(Sweep(G, 1, FALSE, undefCount),
             LAMBDA s : FixpointUndecided(s.rules, s.undefCount, s.progress))
    ELSE G

\* grammar.ts 146-167
RECURSIVE Fixpoint(_, _, _)
Fixpoint(G, undefCount, progress) ==
    IF undefCount > 0 /\ progress
    THEN Let(Sweep(G, 1, FALSE, undefCount),
             LAMBDA s : Fixpoint(s.rules, s.undefCount, s.progress))
    ELSE IF undefCount > 0
    THEN [i \in 1..Len(G) |->
            IF G[i].canMatchNothing = UNKNOWN
            THEN [G[i] EXCEPT !.canMatchNothing = YES] ELSE G[i]]
    ELSE G

\* grammar.ts 168-176
RECURSIVE LeftRecursionWalk(_, _, _)
LeftRecursionWalk(G, i, st) ==
    IF i > Len(G) THEN st
    ELSE IF G[i].name \notin st.checked
    THEN LET st1 == [st EXCEPT !.checked = @ \cup {G[i].name},
                               !.rules = <<[name |-> G[i].name, on |-> TRUE]>>]
         IN  LeftRecursionWalk(G, i + 1, LeftReferences(G, G[i].matcher, st1).st)
    ELSE LeftRecursionWalk(G, i + 1, st)

\* grammar.ts 184-188
RECURSIVE WildcardFailures(_, _)
WildcardFailures(G, i) ==
    IF i > Len(G) THEN <<>>
    ELSE (IF HasEmptyRepeat(G, G[i].matcher) THEN <<G[i].name>> ELSE <<>>)
            \o WildcardFailures(G, i + 1)

Diagnostic(kind, names) == [kind |-> kind, names |-> names]
NoDiagnostic == Diagnostic("null", <<>>)

MarkChecked(G, checked) ==
    [i \in 1..Len(G) |-> [G[i] EXCEPT !.checked = (G[i].name \in checked)]]

\* Grammar.check: the rules as it leaves them, and the diagnostic it returns
Check(G) ==
    IF G = <<>> THEN [rules |-> G, error |-> Diagnostic("empty grammar", <<>>)]
    ELSE IF UndefinedSymbols(G, 1) # <<>>
    THEN [rules |-> G, error |-> Diagnostic("no rule defined", UndefinedSymbols(G, 1))]
    ELSE Let(Fixpoint(G, Len(G), TRUE), LAMBDA G1 :
         Let(LeftRecursionWalk(G1, 1,
                 [checked |-> {}, rules |-> <<>>, failures |-> <<>>]), LAMBDA st :
         Let(MarkChecked(G1, st.checked), LAMBDA G2 :
             IF st.failures # <<>>
             THEN [rules |-> G2, error |-> Diagnostic("left-recursion", st.failures)]
             ELSE IF WildcardFailures(G2, 1) # <<>>
             THEN [rules |-> G2,
                   error |-> Diagnostic("wildcard", WildcardFailures(G2, 1))]
             ELSE [rules |-> G2, error |-> NoDiagnostic])))


(***************************************************************************)
(* The grammar description, as the syntax tree the DSL parser walks, and   *)
(* the parse functions that build the matcher graph from it.               *)
(***************************************************************************)
sText(text) == [s |-> "TEXT", text |-> text]
sRegex(cls, min, re) == [s |-> "REGEX", cls |-> cls, min |-> min, re |-> re]
sSymbol(name) == [s |-> "SYMBOL", name |-> name]
sGroup(choice) == [s |-> "GROUP", choice |-> choice]
sItem(prefix, matcher, wildcard, pred) ==
    [prefix |-> prefix, matcher |-> matcher, wildcard |-> wildcard, pred |-> pred]
sSequence(items, repl) == [items |-> items, repl |-> repl]
sRule(name, description, dot, choice) ==
    [name |-> name, description |-> description, dot |-> dot, choice |-> choice]

Get(G, symbol) == IF HasRule(G, symbol) THEN G ELSE Append(G, Rule(symbol))

Parsed(m, G) == [m |-> m, grammar |-> G]

RECURSIVE ParseMatcher(_, _, _)
RECURSIVE ParseItem(_, _, _)
RECURSIVE ParseItems(_, _, _, _, _)
RECURSIVE ParseSequences(_, _, _, _, _)

ParseSequence(ss, skipWS, G) ==
    Let(ParseItems(ss.items, 1, <<>>, skipWS, G),
        LAMBDA r : Parsed(Sequence(r.m, ss.repl), r.grammar))

ParseChoice(choice, skipWS, G) ==
    Let(ParseSequences(choice, 1, <<>>, skipWS, G),
        LAMBDA r : Parsed(IF Len(r.m) = 1 THEN r.m[1] ELSE Choice(r.m), r.grammar))

ParseSequences(choice, i, matchers, skipWS, G) ==
    IF i > Len(choice) THEN Parsed(matchers, G)
    ELSE Let(ParseSequence(choice[i], skipWS, G),
             LAMBDA r :
               ParseSequences(choice, i + 1, Append(matchers, r.m), skipWS, r.grammar))

ParseItems(sitems, i, items, skipWS, G) ==
    IF i > Len(sitems) THEN Parsed(items, G)
    ELSE Let(ParseItem(sitems[i], skipWS, G),
             LAMBDA r :
               ParseItems(sitems, i + 1, Append(items, r.m), skipWS, r.grammar))

ParseMatcher(sm, skipWS, G) ==
    CASE sm.s = "TEXT" -> Parsed(Text(sm.text, skipWS), G)
      [] sm.s = "REGEX" -> Parsed(Regex(sm.cls, sm.min, sm.re, skipWS), G)
      [] sm.s = "SYMBOL" -> Parsed(Symbol(sm.name), Get(G, sm.name))
      [] sm.s = "GROUP" -> ParseChoice(sm.choice, skipWS, G)

ParseItem(si, skipWS, G) ==
    Let(ParseMatcher(si.matcher, skipWS, G), LAMBDA r :
    Let(CASE si.wildcard = "*" -> Repeat(r.m, TRUE, TRUE)
          [] si.wildcard = "+" -> Repeat(r.m, FALSE, TRUE)
          [] si.wildcard = "?" -> Repeat(r.m, TRUE, FALSE)
          [] OTHER -> r.m, LAMBDA m1 :
    Let(IF si.pred # "" THEN Predicate(m1, si.pred) ELSE m1, LAMBDA m2 :
        Parsed(CASE si.prefix = "!" -> Item(m2, TRUE)
                 [] si.prefix = "-" -> Item(m2, FALSE)
                 [] OTHER -> ItemDefault(m2),
               r.grammar))))

ParseRule(def, G) ==
    Let(ParseChoice(def.choice, ~def.dot, Get(G, def.name)),
        LAMBDA r :
          [r.grammar EXCEPT ![RuleIndex(r.grammar, def.name)] =
              [@ EXCEPT !.matcher = r.m,
                        !.description = def.description,
                        !.skipWS = ~def.dot]])

RECURSIVE ParseRules(_, _, _)
ParseRules(description, i, G) ==
    IF i > Len(description) THEN G
    ELSE ParseRules(description, i + 1, ParseRule(description[i], G))

\* parse(): the grammar and the error of Grammar.check
Parse(description) == Check(ParseRules(description, 1, <<>>))

(***************************************************************************)
(* Matcher.actions and Grammar.actions.  thrown = "" when nothing is       *)
(* thrown, else the message of the Error.                                  *)
(***************************************************************************)
ActionTable(id, replacements, predicates) ==
    [id |-> id, replacements |-> replacements, predicates |-> predicates]
noActions == ActionTable(0, {}, <<>>)

KeptItemCount(m) == Cardinality({i \in 1..Len(m.items) : m.items[i].keep})

Bound(m, thrown) == [m |-> m, thrown |-> thrown]

RECURSIVE BindMatcher(_, _)
RECURSIVE BindItems(_, _, _)
RECURSIVE BindMatchers(_, _, _)

BindItems(items, i, A) ==
    IF i > Len(items) THEN Bound(items, "")
    ELSE Let(BindMatcher(items[i].matcher, A),
             LAMBDA r :
               IF r.thrown # ""
               THEN Bound([items EXCEPT ![i].matcher = r.m], r.thrown)
               ELSE BindItems([items EXCEPT ![i].matcher = r.m], i + 1, A))

BindMatchers(matchers, i, A) ==
    IF i > Len(matchers) THEN Bound(matchers, "")
    ELSE Let(BindMatcher(matchers[i], A),
             LAMBDA r :
               IF r.thrown # ""
               THEN Bound([matchers EXCEPT ![i] = r.m], r.thrown)
               ELSE BindMatchers([matchers EXCEPT ![i] = r.m], i + 1, A))

\* Sequence.actions that binds defaultReplacementFn whatever the number of
\* kept items
SequenceActionsList(m, A) ==
    IF m.repl # ""
    THEN IF m.repl \in A.replacements
         THEN Let(BindItems(m.items, 1, A),
                  LAMBDA r :
                    Bound([m EXCEPT !.fn = UserFn(A.id, m.repl), !.items = r.m],
                          r.thrown))
         ELSE Bound([m EXCEPT !.fn = Undefined],
                    "missing replacement function '" \o m.repl \o "'")
    ELSE Let(BindItems(m.items, 1, A),
             LAMBDA r : Bound([m EXCEPT !.fn = defaultReplacementFn, !.items = r.m],
                              r.thrown))

SequenceActions(m, A) ==
    IF m.repl # ""
    THEN IF m.repl \in A.replacements
         THEN Let(BindItems(m.items, 1, A),
                  LAMBDA r :
                    Bound([m EXCEPT !.fn = UserFn(A.id, m.repl), !.items = r.m],
                          r.thrown))
         ELSE Bound([m EXCEPT !.fn = Undefined],
                    "missing replacement function '" \o m.repl \o "'")
    ELSE Let(BindItems(m.items, 1, A),
             LAMBDA r :
               Bound([m EXCEPT !.fn = IF KeptItemCount(m) = 1
                                      THEN singleItemReplacementFn
                                      ELSE defaultReplacementFn,
                               !.items = r.m],
                     r.thrown))

PredicateActions(m, A) ==
    IF m.name \in DOMAIN A.predicates
    THEN Let(BindMatcher(m.base, A),
             LAMBDA r :
               Bound([m EXCEPT !.fn = PredFn(A.id, m.name, A.predicates[m.name]),
                               !.base = r.m],
                     r.thrown))
    ELSE Bound([m EXCEPT !.fn = Undefined],
               "missing predicate function '" \o m.name \o "'")

BindMatcher(m, A) ==
    CASE m.kind \in {"Text", "Regex", "Symbol"} -> Bound(m, "")
      [] m.kind = "Sequence" -> SequenceActions(m, A)
      [] m.kind = "Choice" ->
            Let(BindMatchers(m.matchers, 1, A),
                LAMBDA r : Bound([m EXCEPT !.matchers = r.m], r.thrown))
      [] m.kind = "Repeat" ->
            Let(BindMatcher(m.base, A),
                LAMBDA r : Bound([m EXCEPT !.base = r.m], r.thrown))
      [] m.kind = "Predicate" -> PredicateActions(m, A)

RECURSIVE BindRules(_, _, _)
BindRules(G, i, A) ==
    IF i > Len(G) THEN Bound(G, "")
    ELSE Let(BindMatcher(G[i].matcher, A),
             LAMBDA r :
               IF r.thrown # "" THEN Bound([G EXCEPT ![i].matcher = r.m], r.thrown)
               ELSE BindRules([G EXCEPT ![i].matcher = r.m], i + 1, A))

\* Grammar.actions: {rules, actionsCalled, thrown}
GrammarActions(G, A) ==
    Let(BindRules(G, 1, A),
        LAMBDA r : [rules |-> r.m, actionsCalled |-> TRUE, thrown |-> r.thrown])


(***************************************************************************)
(* Grammar.match and Grammar.error.                                        *)
(***************************************************************************)
NoError == [m |-> "null"]

\* what a call did: kind = "return" | "throw" | "hang"; matched records
\* whether the start symbol matched (m !== noMatch)
Out(op, kind, result, error, exc, matched) ==
    [op |-> op, kind |-> kind, result |-> result, error |-> error,
     exc |-> exc, matched |-> matched]
NoOut == Out("none", "none", Null, NoError, "", FALSE)

Returned(S, result, msg, matched) ==
    [src |-> S,
     out |-> IF msg.m = "thrown"
             THEN Out("match", "throw", Null, NoError, msg.what, matched)
             ELSE Out("match", "return", result, msg, "", matched)]

\* grammar.ts 103-114, once the actions are bound
MatchSource(G, s) ==
    Let(MatchM(G, Symbol(G[1].name), NewSource(s), {}, <<>>),
        LAMBDA r :
          IF r.src.ab = "loop"
          THEN [src |-> r.src, out |-> Out("match", "hang", Null, NoError, "", FALSE)]
          ELSE IF r.src.ab # ""
          THEN [src |-> r.src,
                out |-> Out("match", "throw", Null, NoError, r.src.ab, FALSE)]
          ELSE IF ~r.ok
          THEN Returned(r.src, Null, Message(r.src), FALSE)
          ELSE IF r.src.pos < r.src.len
          THEN Let(SourceError(r.src, PlainString("end of input"), -1),
                   LAMBDA S1 : Returned(S1, r.val, Message(S1), TRUE))
          ELSE Returned(r.src, r.val, NoError, TRUE))

\* Grammar.match: {rules, actionsCalled, src, out}
GrammarMatch(G, called, lastSrc, s) ==
    Let(IF called
        THEN [rules |-> G, actionsCalled |-> TRUE, thrown |-> ""]
        ELSE GrammarActions(G, noActions),
        LAMBDA b :
          IF b.thrown # ""
          THEN [rules |-> b.rules, actionsCalled |-> b.actionsCalled, src |-> lastSrc,
                out |-> Out("match", "throw", Null, NoError, b.thrown, FALSE)]
          ELSE Let(MatchSource(b.rules, s),
                   LAMBDA r : [rules |-> b.rules, actionsCalled |-> b.actionsCalled,
                               src |-> r.src, out |-> r.out]))

\* Grammar.error
GrammarError(lastSrc, message, pos) ==
    IF lastSrc = NoSource
    THEN Out("error", "throw", Null, NoError, "TypeError", FALSE)
    ELSE Out("error", "return", Null, CustomMessage(lastSrc, message, pos), "", FALSE)


(***************************************************************************)
(* The grammar descriptions of the validator's specification: one to three *)
(* rules a, b, c, each with a body out of CheckBodies.  A body that names  *)
(* a rule the description does not define leaves an undefined symbol.      *)
(***************************************************************************)
It(m) == sItem("", m, "", "")
ItW(m, wildcard) == sItem("", m, wildcard, "")
Seq1(i1) == sSequence(<<i1>>, "")
Seq2(i1, i2) == sSequence(<<i1, i2>>, "")
TextX == sText(<<"a">>)
RegexEmpty == sRegex({"b"}, 0, "b*")
RegexPlus == sRegex({"a"}, 1, "a+")

CheckNames == {"a", "b", "c"}

CheckBodies ==
    {<<Seq1(It(TextX))>>,
     <<Seq1(It(RegexEmpty))>>,
     <<Seq1(ItW(sGroup(<<Seq2(It(TextX), ItW(RegexEmpty, "*"))>>), "+"))>>}
    \cup {<<Seq1(It(sSymbol(x)))>> : x \in CheckNames}
    \cup {<<Seq2(It(sSymbol(x)), It(TextX))>> : x \in CheckNames}
    \cup {<<Seq2(It(TextX), It(sSymbol(x)))>> : x \in CheckNames}
    \cup {<<Seq2(It(RegexEmpty), It(sSymbol(x)))>> : x \in CheckNames}
    \cup {<<Seq2(ItW(sSymbol(x), "?"), It(sSymbol(y)))>> :
            x \in CheckNames, y \in CheckNames}
    \cup {<<Seq1(It(TextX)), Seq1(It(sSymbol(x)))>> : x \in CheckNames}
    \cup {<<Seq1(ItW(sSymbol(x), "+"))>> : x \in CheckNames}
    \cup {<<Seq1(sItem("", sSymbol(x), "", "p"))>> : x \in CheckNames}

\* the bodies of the third rule
CheckBodiesC ==
    {<<Seq1(It(TextX))>>,
     <<Seq1(It(RegexEmpty))>>,
     <<Seq1(It(sSymbol("a")))>>,
     <<Seq1(It(sSymbol("c")))>>,
     <<Seq2(It(sSymbol("a")), It(TextX))>>,
     <<Seq2(It(TextX), It(sSymbol("a")))>>,
     <<Seq2(It(RegexEmpty), It(sSymbol("b")))>>,
     <<Seq2(ItW(sSymbol("b"), "?"), It(sSymbol("a")))>>,
     <<Seq1(It(TextX)), Seq1(It(sSymbol("b")))>>,
     <<Seq1(ItW(sSymbol("a"), "+"))>>}

CheckRule(name, body) == sRule(name, "", FALSE, body)

CheckFamily ==
    {<<CheckRule("a", b1)>> : b1 \in CheckBodies}
    \cup {<<CheckRule("a", b1), CheckRule("b", b2)>> :
            b1 \in CheckBodies, b2 \in CheckBodies}
    \cup {<<CheckRule("a", b1), CheckRule("b", b2), CheckRule("c", b3)>> :
            b1 \in CheckBodies, b2 \in CheckBodies, b3 \in CheckBodiesC}

(***************************************************************************)
(* The state machine.                                                      *)
(***************************************************************************)
NoInput == [called |-> FALSE, s |-> <<>>]
NoLexer == [s |-> <<>>]

Fresh(description) ==
    /\ defs = description
    /\ pc = "new"
    /\ rules = <<>>
    /\ diag = NoDiagnostic
    /\ actionsCalled = FALSE
    /\ src = NoSource
    /\ out = NoOut
    /\ lastInput = NoInput
    /\ lexer = NoLexer

\* createParser(src): parse, then throw the error of Grammar.check if any
CreateParser ==
    /\ pc = "new"
    /\ \E p \in {Parse(defs)} :
           /\ rules' = p.rules
           /\ diag' = p.error
           /\ pc' = IF p.error = NoDiagnostic THEN "ready" ELSE "failed"
           /\ out' = IF p.error = NoDiagnostic
                     THEN Out("createParser", "return", Null, NoError, "", FALSE)
                     ELSE Out("createParser", "throw", Null, NoError,
                              p.error.kind, FALSE)
    /\ UNCHANGED <<defs, actionsCalled, src, lastInput, lexer>>

InitCheck == \E description \in CheckFamily : Fresh(description)
NextCheck == CreateParser
SpecCheck == InitCheck /\ [][NextCheck]_vars


(***************************************************************************)
(* The grammar descriptions, action tables and inputs of the engine's      *)
(* specification.  The first descriptions are the grammars of the          *)
(* repository's tests over the alphabet {a, b, space}.                     *)
(***************************************************************************)
Keep1(m) == sItem("!", m, "", "")
Skip1(m) == sItem("-", m, "", "")
ItP(m, pred) == sItem("", m, "", pred)
Seq1R(i1, repl) == sSequence(<<i1>>, repl)
TextA == sText(<<"a">>)
TextB == sText(<<"b">>)
Sym(name) == sSymbol(name)
Eq(name, choice) == sRule(name, "", FALSE, choice)
DotEq(name, choice) == sRule(name, "", TRUE, choice)
EqD(name, description, choice) == sRule(name, description, FALSE, choice)
DotEqD(name, description, choice) == sRule(name, description, TRUE, choice)

TestGrammars ==
    {<<DotEq("main", <<Seq1(Keep1(TextA)), Seq1(It(TextB))>>)>>,
     <<DotEq("main", <<Seq2(Keep1(TextA), Keep1(TextB))>>)>>,
     <<Eq("main", <<Seq2(Keep1(TextA), Keep1(TextB))>>)>>,
     <<DotEqD("name", "a name", <<Seq1(It(RegexPlus))>>)>>,
     <<Eq("main", <<sSequence(<<It(TextA), Skip1(Sym("sep")), It(RegexPlus)>>, "")>>),
       Eq("sep", <<Seq1(Keep1(TextB)), Seq1(Keep1(TextA))>>)>>,
     <<Eq("main", <<Seq1(It(Sym("pal")))>>),
       Eq("pal", <<Seq1(ItP(Sym("word"), "p"))>>),
       EqD("word", "a word", <<Seq1(It(RegexPlus))>>)>>,
     <<Eq("main", <<Seq2(It(Sym("word")), ItP(Sym("word"), "p"))>>),
       EqD("word", "a word", <<Seq1(It(RegexPlus))>>)>>,
     <<Eq("main", <<Seq1(It(Sym("number")))>>),
       EqD("number", "a number", <<Seq1R(It(RegexPlus), "f")>>)>>,
     <<Eq("main", <<Seq1(ItW(Sym("number"), "+"))>>),
       Eq("number", <<Seq1(It(RegexPlus))>>)>>,
     <<Eq("main", <<Seq1(ItW(Sym("number"), "*"))>>),
       EqD("number", "a number", <<Seq1(It(RegexPlus))>>)>>,
     <<Eq("main", <<Seq2(ItW(Sym("number"), "?"), It(TextB))>>),
       EqD("number", "a number", <<Seq1(It(RegexPlus))>>)>>,
     <<Eq("main", <<Seq2(It(Sym("name")), It(TextB)),
                    Seq2(It(Sym("name")), It(TextA)), Seq1(It(TextB))>>),
       EqD("name", "a name", <<Seq1(It(RegexPlus))>>)>>,
     <<Eq("main", <<Seq2(It(TextB), It(Sym("name")))>>),
       EqD("name", "a name", <<Seq1(It(RegexPlus))>>)>>}

\* grammars of the cases the properties below are about
CaseGrammars ==
    {<<DotEq("main", <<Seq1(It(TextA)), Seq1(It(TextB)), Seq1(It(Sym("name")))>>),
       EqD("name", "a name", <<Seq1(It(RegexPlus))>>)>>,
     <<DotEq("main", <<Seq1(ItW(sGroup(<<Seq2(It(TextA), It(TextB))>>), "?"))>>)>>,
     <<Eq("main", <<Seq1(ItW(sGroup(<<Seq2(It(TextA), ItW(RegexEmpty, "*"))>>), "+"))>>)>>,
     <<Eq("main", <<Seq2(It(TextA), It(Sym("main")))>>)>>,
     <<Eq("main", <<Seq2(ItP(TextA, "p"), It(TextB))>>)>>,
     <<Eq("main", <<Seq2(It(TextA), It(TextB))>>)>>,
     <<DotEq("main", <<Seq1(It(TextA)), Seq1(It(TextB)), Seq1(It(Sym("sub"))),
                       Seq2(It(sText(<<" ">>)), ItP(TextB, "p"))>>),
       EqD("sub", "a sub", <<Seq1(It(RegexPlus))>>)>>,
     <<Eq("main", <<Seq2(ItW(TextA, "*"), It(sGroup(<<Seq1(It(TextB))>>)))>>)>>}

\* main with two items out of Units, in sequence or as alternatives, over
\* a described rule sub
Units ==
    {Keep1(TextA), It(TextB), ItW(Sym("sub"), "*"), ItP(Sym("sub"), "p")}

SubRule == EqD("sub", "a sub", <<Seq1(It(RegexPlus))>>)

UnitGrammars ==
    {<<sRule("main", "", dot, <<Seq2(u1, u2)>>), SubRule>> :
        dot \in BOOLEAN, u1 \in Units, u2 \in Units}
    \cup {<<sRule("main", "", dot, <<Seq1(u1), Seq1(u2)>>), SubRule>> :
        dot \in BOOLEAN, u1 \in Units, u2 \in Units}

EngineFamily == TestGrammars \cup CaseGrammars \cup UnitGrammars

ActionTables ==
    {ActionTable(1, {"f"}, "p" :> "string"),
     ActionTable(2, {"f"}, "p" :> "rich"),
     ActionTable(3, {}, "p" :> "onlyA")}

Alphabet == {"a", "b", " "}
MaxInputLen == 2

\* longer inputs of the tests: terminals separated by whitespace
LongInputs ==
    {<<"a", " ", "b">>, <<"a", " ", " ", "b">>, <<"a", " ", "a">>,
     <<"a", "a", "b">>, <<"b", " ", "a", "a">>}

RECURSIVE Strings(_)
Strings(n) ==
    IF n = 0 THEN {<<>>}
    ELSE LET shorter == Strings(n - 1)
         IN  shorter \cup {Append(s, c) : s \in {x \in shorter : Len(x) = n - 1},
                                          c \in Alphabet}

Inputs == Strings(MaxInputLen) \cup LongInputs

\* parser.actions(A)
ActionsCall(A) ==
    /\ pc = "ready"
    /\ \E r \in {GrammarActions(rules, A)} :
           /\ rules' = r.rules
           /\ actionsCalled' = r.actionsCalled
           /\ out' = IF r.thrown # ""
                     THEN Out("actions", "throw", Null, NoError, r.thrown, FALSE)
                     ELSE Out("actions", "return", Null, NoError, "", FALSE)
    /\ UNCHANGED <<defs, pc, diag, src, lastInput, lexer>>

\* parser.match(s)
MatchCall(s) ==
    /\ pc = "ready"
    /\ \E r \in {GrammarMatch(rules, actionsCalled, src, s)} :
           /\ rules' = r.rules
           /\ actionsCalled' = r.actionsCalled
           /\ src' = r.src
           /\ out' = r.out
    /\ lastInput' = [called |-> TRUE, s |-> s]
    /\ UNCHANGED <<defs, pc, diag, lexer>>

\* the arguments of parser.error in the specification
Messages == {"hmm"}
Positions == 0..MaxInputLen

\* parser.error(message, pos)
ErrorCall(message, pos) ==
    /\ pc = "ready"
    /\ out' = GrammarError(src, message, pos)
    /\ UNCHANGED <<defs, pc, rules, diag, actionsCalled, src, lastInput, lexer>>

Init == \E description \in EngineFamily : Fresh(description)
Next ==
    \/ CreateParser
    \/ \E A \in ActionTables : ActionsCall(A)
    \/ \E s \in Inputs : MatchCall(s)
Spec == Init /\ [][Next]_vars

\* The parser with its three operations, over the grammar of the custom
\* error message test, a grammar with a named replacement and one with a
\* predicate.
ErrorFamily ==
    {<<Eq("main", <<Seq2(It(TextB), It(Sym("name")))>>),
       EqD("name", "a name", <<Seq1(It(RegexPlus))>>)>>,
     <<Eq("main", <<Seq1(It(Sym("number")))>>),
       EqD("number", "a number", <<Seq1R(It(RegexPlus), "f")>>)>>,
     <<Eq("main", <<Seq2(It(Sym("word")), ItP(Sym("word"), "p"))>>),
       EqD("word", "a word", <<Seq1(It(RegexPlus))>>)>>}

InitError == \E description \in ErrorFamily : Fresh(description)
NextError ==
    \/ CreateParser
    \/ \E A \in ActionTables : ActionsCall(A)
    \/ \E s \in Inputs : MatchCall(s)
    \/ \E message \in Messages, pos \in Positions : ErrorCall(message, pos)
SpecError == InitError /\ [][NextError]_vars

\* The parser of the custom error message test over inputs of several
\* lines, with parser.error called at every position of the input.
MaxTextLen == 3

RECURSIVE Texts(_)
Texts(n) ==
    IF n = 0 THEN {<<>>}
    ELSE LET shorter == Texts(n - 1)
         IN  shorter \cup {Append(s, c) : s \in {x \in shorter : Len(x) = n - 1},
                                          c \in {"a", "b", NewLine}}

InitMessage ==
    Fresh(<<Eq("main", <<Seq2(It(TextB), It(Sym("name")))>>),
            EqD("name", "a name", <<Seq1(It(RegexPlus))>>)>>)
NextMessage ==
    \/ CreateParser
    \/ \E s \in Texts(MaxTextLen) : MatchCall(s)
    \/ \E message \in Messages, pos \in 0..MaxTextLen : ErrorCall(message, pos)
SpecMessage == InitMessage /\ [][NextMessage]_vars


(***************************************************************************)
(* The Lexer of the grammar description language.  A lexer is {s,          *)
(* lastIndex, pushedBack, err, op, ret, plain}: the source, re.lastIndex,  *)
(* the stack of pushed-back tokens, the recorded error, the most recent    *)
(* call with what it returned, and whether only next() was called so far.  *)
(***************************************************************************)
Token(type, value, position) == [type |-> type, value |-> value, position |-> position]
NoLexError == [reason |-> "null"]
LexError(reason, token) == [reason |-> reason, token |-> token]

Lower == {"a", "b", "n"}
Upper == {"A"}
Digit == {"0"}

\* specials: the characters an escape in a TEXT stands for
Special(c) ==
    CASE c = "b" -> "BS" [] c = "f" -> "FF" [] c = "t" -> "TAB"
      [] c = "v" -> "VT" [] c = "r" -> "CR" [] c = "n" -> NewLine
      [] OTHER -> c

\* (?:[^\\d]|\\.)* from i: the end of the greedy run
RECURSIVE BodyEnd(_, _, _)
BodyEnd(s, i, d) ==
    IF i < Len(s) /\ s[i + 1] \notin {"\\", d} THEN BodyEnd(s, i + 1, d)
    ELSE IF i + 1 < Len(s) /\ s[i + 1] = "\\" /\ s[i + 2] # NewLine
    THEN BodyEnd(s, i + 2, d)
    ELSE i

\* [^>]+ from i
RECURSIVE DescriptionEnd(_, _)
DescriptionEnd(s, i) ==
    IF i < Len(s) /\ s[i + 1] # ">" THEN DescriptionEnd(s, i + 1) ELSE i

NoExec == [g |-> 0, text |-> <<>>, lastIndex |-> 0]
Exec(g, text, lastIndex) == [g |-> g, text |-> text, lastIndex |-> lastIndex]

\* this.re.exec(this.s) with re.lastIndex = i: the group that matched, its
\* text and the new lastIndex; no match resets lastIndex to 0
ReExec(s, i) ==
    IF i >= Len(s) THEN NoExec
    ELSE LET c == s[i + 1]
             body == BodyEnd(s, i + 1, c)
             desc == DescriptionEnd(s, i + 1)
         IN  CASE c \in WhiteSpace ->
                    Exec(1, <<>>, RunEnd(s, i, WhiteSpace))
               [] c \in Lower ->
                    LET e == RunEnd(s, i + 1, Lower \cup Upper \cup Digit)
                    IN  Exec(2, SubSeq(s, i + 1, e), e)
               [] c = "'" /\ body > i + 1 /\ body < Len(s) /\ s[body + 1] = "'" ->
                    Exec(3, SubSeq(s, i + 2, body), body + 1)
               [] c = "/" /\ body < Len(s) /\ s[body + 1] = "/" ->
                    Exec(4, SubSeq(s, i + 2, body), body + 1)
               [] c = "<" /\ desc > i + 1 /\ desc < Len(s) /\ s[desc + 1] = ">" ->
                    Exec(5, SubSeq(s, i + 2, desc), desc + 1)
               [] OTHER -> Exec(6, <<c>>, i + 1)

\* match[3].replace(/\\./g, ...): every escape replaced by its character
RECURSIVE Unescape(_)
Unescape(text) ==
    IF text = <<>> THEN <<>>
    ELSE IF text[1] = "\\" /\ Len(text) >= 2 /\ text[2] # NewLine
    THEN <<Special(text[2])>> \o Unescape(SubSeq(text, 3, Len(text)))
    ELSE <<text[1]>> \o Unescape(Tail(text))

\* match[4].replace('(', '(?:'): a string pattern replaces its first
\* occurrence only
ReplaceFirst(text) ==
    IF \E i \in 1..Len(text) : text[i] = "("
    THEN LET i == CHOOSE k \in 1..Len(text) :
                     text[k] = "(" /\ \A j \in 1..(k - 1) : text[j] # "("
         IN  SubSeq(text, 1, i - 1) \o <<"(", "?", ":">> \o SubSeq(text, i + 1, Len(text))
    ELSE text

NewLexer(s) ==
    [s |-> s, lastIndex |-> 0, pushedBack |-> <<>>, err |-> NoLexError,
     op |-> "new", ret |-> Null, plain |-> TRUE]

Returns(L, op, ret) == [L EXCEPT !.op = op, !.ret = ret]

\* the while loop of next() and the token built from the match
RECURSIVE LexLoop(_, _)
LexLoop(L, pos) ==
    Let(ReExec(L.s, L.lastIndex), LAMBDA m :
        Let([L EXCEPT !.lastIndex = m.lastIndex], LAMBDA L1 :
            CASE m.g = 1 -> LexLoop(L1, m.lastIndex)
              [] m.g = 2 -> Returns(L1, "next", Token("SYMBOL", m.text, pos))
              [] m.g = 3 -> Returns(L1, "next", Token("TEXT", Unescape(m.text), pos))
              [] m.g = 4 -> Returns(L1, "next", Token("REGEX", ReplaceFirst(m.text), pos))
              [] m.g = 5 -> Returns(L1, "next", Token("DESCRIPTION", m.text, pos))
              [] m.g = 6 -> Returns(L1, "next", Token("CHAR", m.text, pos))
              [] OTHER -> Returns(L1, "next", Token("EOF", <<>>, pos))))

\* Lexer.next that replays pushed-back tokens before it looks at the error
LexerNextReplaysFirst(L) ==
    IF L.pushedBack # <<>>
    THEN Returns([L EXCEPT !.pushedBack = SubSeq(@, 1, Len(@) - 1)], "next",
                 L.pushedBack[Len(L.pushedBack)])
    ELSE IF L.err # NoLexError
    THEN Returns(L, "next", Token("EOF", <<>>, L.lastIndex))
    ELSE LexLoop(L, L.lastIndex)

\* Lexer.next
LexerNext(L) ==
    IF L.err # NoLexError
    THEN Returns(L, "next", Token("EOF", <<>>, L.lastIndex))
    ELSE IF L.pushedBack # <<>>
    THEN Returns([L EXCEPT !.pushedBack = SubSeq(@, 1, Len(@) - 1)], "next",
                 L.pushedBack[Len(L.pushedBack)])
    ELSE LexLoop(L, L.lastIndex)

\* a pushBack that puts the token under those already pushed back
LexerPushBackUnder(L, t) == [L EXCEPT !.pushedBack = <<t>> \o @]

\* Lexer.pushBack
LexerPushBack(L, t) == [L EXCEPT !.pushedBack = Append(@, t)]

\* Lexer.peek
LexerPeek(L) ==
    Let(LexerNext(L), LAMBDA L1 : Returns(LexerPushBack(L1, L1.ret), "peek", L1.ret))

\* Lexer.error
LexerError(L, reason, token) ==
    IF L.err # NoLexError THEN L ELSE [L EXCEPT !.err = LexError(reason, token)]

\* Lexer.message
LexerMessage(L) ==
    IF L.err = NoLexError THEN [m |-> "empty"]
    ELSE errorMessage(Custom(L.err.reason), L.s, L.err.token.position)

\* the tokens next() delivers from a new lexer of s, up to the first EOF
RECURSIVE TokensFrom(_)
TokensFrom(L) ==
    Let(LexerNext(L), LAMBDA L1 :
        IF L1.ret.type = "EOF" THEN {L1.ret} ELSE {L1.ret} \cup TokensFrom(L1))

\* The sources: those of the lexer tests and of the properties below.
LexerSources ==
    {<<>>,
     <<"a", "b", NewLine, "n", " ", "a", "A", "0">>,
     <<"a", " ", "=", " ", "'", "b", "\\", "n", "'", " ", "<", "a", " ", "b", ">">>,
     <<"/", "(", "a", ")", "(", "b", ")", "/", " ", "n">>,
     <<"/", "\\", "(", "a", "(", "?", ":", "b", ")", "/">>,
     <<"/", "a", "/", " ">>,
     <<"'", "a", " ", "<", ">", "/">>}

MaxPushedBack == 2
Reasons == {"hate this"}

Calls(op, L) == lexer' = [L EXCEPT !.op = op, !.plain = L.plain /\ op = "next"]

LexerNextCall ==
    /\ pc = "lexer"
    /\ Calls("next", LexerNext(lexer))
    /\ UNCHANGED <<defs, pc, rules, diag, actionsCalled, src, out, lastInput>>

LexerPeekCall ==
    /\ pc = "lexer"
    /\ Len(lexer.pushedBack) < MaxPushedBack
    /\ Calls("peek", LexerPeek(lexer))
    /\ UNCHANGED <<defs, pc, rules, diag, actionsCalled, src, out, lastInput>>

LexerPushBackCall(t) ==
    /\ pc = "lexer"
    /\ Len(lexer.pushedBack) < MaxPushedBack
    /\ Calls("pushBack", Returns(LexerPushBack(lexer, t), "pushBack", Null))
    /\ UNCHANGED <<defs, pc, rules, diag, actionsCalled, src, out, lastInput>>

LexerErrorCall(reason, t) ==
    /\ pc = "lexer"
    /\ Calls("error", Returns(LexerError(lexer, reason, t), "error", Null))
    /\ UNCHANGED <<defs, pc, rules, diag, actionsCalled, src, out, lastInput>>

LexerMessageCall ==
    /\ pc = "lexer"
    /\ Calls("message", Returns(lexer, "message", LexerMessage(lexer)))
    /\ UNCHANGED <<defs, pc, rules, diag, actionsCalled, src, out, lastInput>>

InitLexer ==
    /\ defs = <<>>
    /\ pc = "lexer"
    /\ rules = <<>>
    /\ diag = NoDiagnostic
    /\ actionsCalled = FALSE
    /\ src = NoSource
    /\ out = NoOut
    /\ lastInput = NoInput
    /\ \E s \in LexerSources : lexer = NewLexer(s)
NextLexer ==
    \/ LexerNextCall
    \/ LexerPeekCall
    \/ \E t \in TokensFrom(NewLexer(lexer.s)) : LexerPushBackCall(t)
    \/ \E reason \in Reasons, t \in TokensFrom(NewLexer(lexer.s)) : LexerErrorCall(reason, t)
    \/ LexerMessageCall
SpecLexer == InitLexer /\ [][NextLexer]_vars


(***************************************************************************)
(* Reference notions the properties are stated in.  They are defined from  *)
(* the matcher graph alone, independently of the validator's own queries.  *)
(***************************************************************************)
Range(f) == {f[i] : i \in DOMAIN f}

EndOfInput == PlainString("end of input")

ConfigFailures ==
    {"missing replacement function 'f'", "missing predicate function 'p'"}

\* m names a replacement or a predicate whose slot holds no user function
RECURSIVE Unbound(_)
Unbound(m) ==
    CASE m.kind = "Sequence" ->
            \/ m.repl # "" /\ m.fn.f # "user"
            \/ \E i \in 1..Len(m.items) : Unbound(m.items[i].matcher)
      [] m.kind = "Choice" -> \E i \in 1..Len(m.matchers) : Unbound(m.matchers[i])
      [] m.kind = "Repeat" -> Unbound(m.base)
      [] m.kind = "Predicate" -> m.fn.f # "user" \/ Unbound(m.base)
      [] OTHER -> FALSE

HasUnbound(G) == \E i \in 1..Len(G) : Unbound(G[i].matcher)

AllDefined(G) == \A i \in 1..Len(G) : G[i].matcher # NoMatcher

\* m can succeed without consuming input, given the set N of nullable rules
RECURSIVE Nullable(_, _)
Nullable(m, N) ==
    CASE m.kind = "Regex" -> m.min = 0
      [] m.kind = "Symbol" -> m.rule \in N
      [] m.kind = "Choice" -> \E i \in 1..Len(m.matchers) : Nullable(m.matchers[i], N)
      [] m.kind = "Sequence" ->
            \A i \in 1..Len(m.items) : Nullable(m.items[i].matcher, N)
      [] m.kind = "Repeat" -> m.zeroOK \/ Nullable(m.base, N)
      [] m.kind = "Predicate" -> Nullable(m.base, N)
      [] OTHER -> FALSE

\* the least set of nullable rules
RECURSIVE NullableFrom(_, _)
NullableFrom(G, N) ==
    LET N2 == {G[i].name : i \in {j \in 1..Len(G) : Nullable(G[j].matcher, N)}}
    IN  IF N2 = N THEN N ELSE NullableFrom(G, N2)

NullableRules(G) == NullableFrom(G, {})

\* the rules named at the leftmost positions of m
RECURSIVE LeftSymbols(_, _)
LeftSymbols(m, N) ==
    CASE m.kind = "Symbol" -> {m.rule}
      [] m.kind = "Choice" ->
            UNION {LeftSymbols(m.matchers[i], N) : i \in 1..Len(m.matchers)}
      [] m.kind = "Sequence" ->
            UNION {LeftSymbols(m.items[i].matcher, N) :
                     i \in {k \in 1..Len(m.items) :
                              \A j \in 1..(k - 1) : Nullable(m.items[j].matcher, N)}}
      [] m.kind \in {"Repeat", "Predicate"} -> LeftSymbols(m.base, N)
      [] OTHER -> {}

LeftEdges(G, n) ==
    IF HasRule(G, n) THEN LeftSymbols(RuleOf(G, n).matcher, NullableRules(G)) ELSE {}

RECURSIVE LeftClosure(_, _)
LeftClosure(G, S) ==
    LET S2 == S \cup UNION {LeftEdges(G, n) : n \in S}
    IN  IF S2 = S THEN S ELSE LeftClosure(G, S2)

\* rule n reaches its own Symbol through leftmost positions
OnLeftCycle(G, n) == n \in LeftClosure(G, LeftEdges(G, n))

LeftRecursive(G) == \E i \in 1..Len(G) : OnLeftCycle(G, G[i].name)

\* m contains, at any depth, a Repeat whose base is nullable
RECURSIVE HasNullableRepeat(_, _)
HasNullableRepeat(m, N) ==
    CASE m.kind = "Repeat" -> Nullable(m.base, N) \/ HasNullableRepeat(m.base, N)
      [] m.kind = "Choice" ->
            \E i \in 1..Len(m.matchers) : HasNullableRepeat(m.matchers[i], N)
      [] m.kind = "Sequence" ->
            \E i \in 1..Len(m.items) : HasNullableRepeat(m.items[i].matcher, N)
      [] m.kind = "Predicate" -> HasNullableRepeat(m.base, N)
      [] OTHER -> FALSE

\* the symbols a description references, and those it defines
RECURSIVE ReferencedIn(_)
ReferencedIn(choice) ==
    UNION {UNION {LET sm == choice[i].items[k].matcher
                  IN  CASE sm.s = "SYMBOL" -> {sm.name}
                        [] sm.s = "GROUP" -> ReferencedIn(sm.choice)
                        [] OTHER -> {}
                  : k \in 1..Len(choice[i].items)}
           : i \in 1..Len(choice)}

Referenced(description) ==
    UNION {ReferencedIn(description[i].choice) : i \in 1..Len(description)}

Defined(description) == {description[i].name : i \in 1..Len(description)}

MatchDone == out.op = "match"
StoppedShort == MatchDone /\ out.matched /\ src.pos < src.len


(***************************************************************************)
(* The properties.                                                         *)
(***************************************************************************)

\* C1: with every named action bound, a match that returns gives either a
\* non-null result with a null error, or a null result with an error; never
\* a non-null result together with a non-null error.
C1_ResultXorError ==
    (MatchDone /\ out.kind = "return" /\ ~HasUnbound(rules)) =>
        \/ out.result # Null /\ out.error = NoError
        \/ out.result = Null /\ out.error # NoError

\* C2 as stated: whenever the start rule matched and the cursor stopped
\* before the end of the input, "end of input" is among the recorded
\* expectations and the recorded position is the final cursor.
C2_EndOfInputAlways ==
    StoppedShort => EndOfInput \in Range(src.err) /\ src.errPos = src.pos

\* C2 amended: whenever the start rule matched and the cursor stopped before
\* the end of the input, the match does not return success (a returned
\* error is non-null), the recorded failure position is at or right of the
\* final cursor, and "end of input" is among the recorded expectations
\* exactly when the recorded position is the final cursor, that is when no
\* failure was recorded further right.
C2_EndOfInputUnlessFurther ==
    StoppedShort =>
        /\ src.errPos >= src.pos
        /\ (src.errPos = src.pos) <=> (EndOfInput \in Range(src.err))
        /\ out.kind = "return" => out.error # NoError

\* the start rule matched short of the end while an abandoned alternative
\* had failed further right
C2_FurtherRightReached ==
    StoppedShort /\ src.errPos > src.pos /\ out.kind = "return"

\* C3: with every named action bound, match never raises: it returns a
\* {result, error} value, and building the error message never throws.
C3_NeverThrows ==
    (MatchDone /\ ~HasUnbound(rules)) => out.kind # "throw"

\* C4: for a grammar the validator accepted, match terminates: no Repeat
\* iterates without the cursor advancing and no rule re-enters itself at the
\* same cursor.
C4_MatchTerminates ==
    (MatchDone /\ pc = "ready") =>
        /\ out.kind # "hang"
        /\ src.ab \notin {"loop", "overflow"}

\* C5: while the grammar names a replacement or predicate the bound table
\* does not supply, every match call raises the configuration failure
\* "missing replacement function 'X'" or "missing predicate function 'X'".
C5_MissingActionAlwaysRaised ==
    (MatchDone /\ HasUnbound(rules)) =>
        out.kind = "throw" /\ out.exc \in ConfigFailures

\* C6: every predicate call receives, as its context, the values kept so far
\* by the earlier items of the enclosing Sequence, in order.
C6_PredicateContext ==
    \A i \in 1..Len(src.calls) : src.calls[i].context = src.calls[i].kept

C8_OnlyCycleRulesListed ==
    diag.kind = "left-recursion" =>
        /\ diag.names # <<>>
        /\ \A n \in Range(diag.names) : OnLeftCycle(rules, n)
        /\ Cardinality(Range(diag.names)) = Len(diag.names)

\* C9: a rule whose body contains, at any depth, a Repeat with a nullable
\* base is named by the wildcard diagnostic, and no rule of a compiled
\* grammar contains such a Repeat.
C9_NoRepeatOverNullable ==
    LET bad == {i \in 1..Len(rules) :
                  HasNullableRepeat(rules[i].matcher, NullableRules(rules))}
    IN  /\ pc = "ready" => bad = {}
        /\ diag.kind = "wildcard" =>
              \A i \in bad : rules[i].name \in Range(diag.names)

\* C10: a description that references a symbol with no rule fails with the
\* undefined-symbol diagnostic naming each such symbol once and no other,
\* whatever else is wrong with it; so every rule of a compiled grammar has a
\* body.
C10_UndefinedSymbolsReported ==
    pc # "new" =>
        LET undef == Referenced(defs) \ Defined(defs)
        IN  /\ (undef # {}) <=> (diag.kind = "no rule defined")
            /\ diag.kind = "no rule defined" =>
                  /\ Range(diag.names) = undef
                  /\ Len(diag.names) = Cardinality(undef)
            /\ pc = "ready" => AllDefined(rules)

\* a = a? b with no rule b: left-recursive, and reported as an undefined
\* symbol
C10_UndefinedBeforeLeftRecursion ==
    /\ defs = <<CheckRule("a", <<Seq2(ItW(sSymbol("a"), "?"), It(sSymbol("b")))>>)>>
    /\ pc = "failed"
    /\ diag = Diagnostic("no rule defined", <<"b">>)

\* C11: when a described rule fails and its failure is recorded at the
\* furthest-failure position, the final expectation list contains the
\* description and none of the expectations the rule's body recorded during
\* the failed attempt.
C11_DescriptionReplacesBody ==
    \A i \in 1..Len(src.trace) :
        LET d == src.trace[i]
        IN  (d.ev = "described" /\ d.pos = src.errPos /\ d.after = src.err) =>
                /\ Terminal("Symbol", d.description) \in Range(src.err)
                /\ \A e \in d.body \ d.before : e \notin Range(src.err)

\* the input 'a', k spaces, 'b'
Separated(k) == <<"a">> \o [i \in 1..k |-> " "] \o <<"b">>

TwoTerminals(dot) == <<sRule("main", "", dot, <<Seq2(Keep1(TextA), Keep1(TextB))>>)>>

Succeeded == MatchDone /\ out.kind = "return" /\ out.error = NoError

\* C12: in a rule declared with '=', the terminals 'a' 'b' match the input
\* whether they are adjacent or separated by a run of whitespace, and the
\* second token's pos is the position after the whitespace; in a rule
\* declared with '.=' they match only when adjacent.
C12_WhitespaceBetweenTerminals ==
    MatchDone =>
        /\ defs = TwoTerminals(FALSE) =>
              \A k \in 0..Len(src.s) :
                  src.s = Separated(k) =>
                      /\ Succeeded
                      /\ out.result = List(<<Tok(<<"a">>, 0), Tok(<<"b">>, k + 1)>>)
        /\ defs = TwoTerminals(TRUE) =>
              (Succeeded <=> src.s = Separated(0))

\* 'a' and 'b' two spaces apart matched by main = !'a' !'b'
C12_SeparatedMatched ==
    /\ Succeeded
    /\ defs = TwoTerminals(FALSE)
    /\ src.s = Separated(2)
    /\ out.result = List(<<Tok(<<"a">>, 0), Tok(<<"b">>, 3)>>)

\* the keep flag the item si of a description has by the rule "an item
\* without prefix is kept exactly when its matcher's kind is not Text"
KeptByKind(si) ==
    CASE si.prefix = "!" -> TRUE
      [] si.prefix = "-" -> FALSE
      [] OTHER -> ~(si.matcher.s = "TEXT" /\ si.wildcard = "" /\ si.pred = "")

\* the matcher an item's wildcard and predicate wrap
Wrapped(si, m) ==
    LET m1 == IF si.pred # "" THEN m.base ELSE m
    IN  IF si.wildcard # "" THEN m1.base ELSE m1

RECURSIVE KeepFlagsByKind(_, _)
KeepFlagsByKind(choice, m) ==
    \A i \in 1..Len(choice) :
        LET sequence == IF Len(choice) = 1 THEN m ELSE m.matchers[i]
        IN  \A j \in 1..Len(choice[i].items) :
                LET si == choice[i].items[j]
                    item == sequence.items[j]
                IN  /\ item.keep = KeptByKind(si)
                    /\ si.matcher.s = "GROUP" =>
                          KeepFlagsByKind(si.matcher.choice, Wrapped(si, item.matcher))

\* C13: in a compiled grammar an item written without prefix is kept
\* exactly when its matcher's kind is not Text (Regex, Symbol, group, Repeat
\* and Predicate items are kept whatever they wrap); an item written with
\* '!' is kept and one written with '-' is skipped.
C13_KeepByKind ==
    pc = "ready" =>
        \A i \in 1..Len(defs) :
            KeepFlagsByKind(defs[i].choice, RuleOf(rules, defs[i].name).matcher)

\* the events of the kind ev the last match call logged
Logged(ev) == {i \in 1..Len(src.trace) : src.trace[i].ev = ev}

\* C14: a Sequence without replacement name that matched returns the value
\* of its single kept item when exactly one of its items is kept, and
\* otherwise the list of the kept items' values in order (the empty list
\* when none is kept); a Sequence with a replacement name returns the bound
\* function applied to that list.
C14_SequenceValue ==
    /\ \A i \in Logged("sequence") :
          LET d == src.trace[i]
          IN  IF d.repl = ""
              THEN d.val = IF d.keptItems = 1 THEN d.res[1] ELSE List(d.res)
              ELSE \E A \in ActionTables :
                      /\ d.repl \in A.replacements
                      /\ d.val = App(A.id, d.repl, d.res)
    /\ Succeeded =>
          /\ (defs = TwoTerminals(FALSE) /\ src.s = <<"a", "b">>) =>
                out.result = List(<<Tok(<<"a">>, 0), Tok(<<"b">>, 1)>>)
          /\ (defs = <<Eq("main", <<Seq2(It(TextA), It(TextB))>>)>>
                /\ src.s = <<"a", "b">>) =>
                out.result = List(<<>>)
          /\ (defs = <<Eq("main", <<Seq2(Keep1(TextA), It(TextB))>>), SubRule>>
                /\ src.s = <<"a", "b">>) =>
                out.result = Tok(<<"a">>, 0)

\* main = !'a' 'b' matched "ab": one kept item out of two, and the value is
\* the token of 'a', not a list
C14_SingleKeptValue ==
    /\ Succeeded
    /\ defs = <<Eq("main", <<Seq2(Keep1(TextA), It(TextB))>>), SubRule>>
    /\ src.s = <<"a", "b">>
    /\ out.result = Tok(<<"a">>, 0)
    /\ \E i \in Logged("sequence") :
          src.trace[i].keptItems = 1 /\ Len(src.trace[i].res) = 1

\* the alternatives the Choice logged at index k tried, in the order tried
Attempts(k) ==
    LET d == src.trace[k]
        own == {j \in (d.from + 1)..(k - 1) :
                  /\ src.trace[j].ev = "alternative"
                  /\ src.trace[j].matchers = d.matchers
                  /\ src.trace[j].depth = d.depth}
        Nth(n) == CHOOSE j \in own : Cardinality({x \in own : x < j}) = n - 1
    IN  [n \in 1..Cardinality(own) |-> src.trace[Nth(n)]]

\* C15: a Choice tries its alternatives left to right, each from the cursor
\* the Choice was entered at; it returns what the first alternative that
\* matches returns, tries none after it, and fails only when every
\* alternative was tried and failed.
C15_ChoiceFirstSuccess ==
    \A k \in Logged("choice") :
        LET d == src.trace[k]
            tried == Attempts(k)
            n == Len(tried)
        IN  /\ n >= 1
            /\ \A j \in 1..n : tried[j].i = j /\ tried[j].pos = d.pos
            /\ \A j \in 1..(n - 1) : ~tried[j].ok
            /\ d.ok = tried[n].ok
            /\ d.ok => d.val = tried[n].val
            /\ ~d.ok => n = Len(d.matchers)

\* main = name 'b' | name 'a' | 'b' on "a a": the first alternative fails
\* after consuming the name, the second starts again at 0 and matches, and
\* the third is not tried
C15_SecondAlternativeWins ==
    /\ Succeeded
    /\ src.s = <<"a", " ", "a">>
    /\ \E k \in Logged("choice") :
          /\ Len(src.trace[k].matchers) = 3
          /\ src.trace[k].ok
          /\ Len(Attempts(k)) = 2
          /\ Attempts(k)[2].pos = src.trace[k].pos

\* the attempts of its base the Repeat logged at index k made, in order
Iterations(k) ==
    LET d == src.trace[k]
        own == {j \in (d.from + 1)..(k - 1) :
                  /\ src.trace[j].ev = "iteration"
                  /\ src.trace[j].base = d.base
                  /\ src.trace[j].depth = d.depth}
        Nth(n) == CHOOSE j \in own : Cardinality({x \in own : x < j}) = n - 1
    IN  [n \in 1..Cardinality(own) |-> src.trace[Nth(n)]]

\* C16: a Repeat returns the list of the values its base matched, in input
\* order.  '*' and '?' never fail; '+' fails exactly when its base does not
\* match at the first attempt; '?' returns at most one value; '*' and '+'
\* stop only when the base fails or the cursor is at the end of the input.
C16_RepeatValue ==
    \A k \in Logged("repeat") :
        LET d == src.trace[k]
            tried == Iterations(k)
            n == Len(tried)
            matched == SelectSeq(tried, LAMBDA e : e.ok)
        IN  /\ \A j \in 1..(n - 1) : tried[j].ok /\ tried[j].pos <= tried[j + 1].pos
            /\ d.ok => d.val = List([j \in 1..Len(matched) |-> matched[j].val])
            /\ d.zeroOK => d.ok
            /\ ~d.zeroOK => n >= 1 /\ (d.ok <=> tried[1].ok)
            /\ ~d.multipleOK => n <= 1
            /\ d.multipleOK => d.atEnd \/ (n >= 1 /\ ~tried[n].ok)

\* main = number+ on "a a": two values, and the loop stopped at the end of
\* the input
C16_TwoRepetitions ==
    /\ Succeeded
    /\ src.s = <<"a", " ", "a">>
    /\ \E k \in Logged("repeat") :
          /\ ~src.trace[k].zeroOK /\ src.trace[k].multipleOK
          /\ Len(Iterations(k)) = 2
          /\ src.trace[k].atEnd
          /\ src.trace[k].val = List(<<Tok(<<"a">>, 0), Tok(<<"a">>, 2)>>)

\* C17: after match calls on a parser, parser.error(message, pos) returns
\* the message formatted against the input of the most recent match call.
C17_ErrorAgainstLastInput ==
    [][\A message \in Messages, pos \in Positions :
          (lastInput.called /\ ErrorCall(message, pos)) =>
              out' = Out("error", "return", Null,
                         errorMessage(Custom(message), lastInput.s, pos), "", FALSE)]_vars

\* C18: what match(t) returns or throws does not depend on the match calls
\* made on the parser before it: a match call leaves the outcome of every
\* later match call as it was.
C18_MatchIsFunctionOfInput ==
    [][\A s \in Inputs :
          MatchCall(s) =>
              \A t \in Inputs :
                  GrammarMatch(rules', actionsCalled', src', t).out
                      = GrammarMatch(rules, actionsCalled, src, t).out]_vars

\* the match call failed: the start symbol did not match, or it matched and
\* stopped short of the end of the input
MatchFailed ==
    /\ MatchDone
    /\ src.ab = ""
    /\ out.exc \notin ConfigFailures
    /\ ~out.matched \/ src.pos < src.len

\* the rich failures in the expectation list
RichFailures == {e \in Range(src.err) : e.e = "pf"}

\* C19: when a match fails with a rich failure in the expectation list of
\* the furthest-failure position, the returned error is what the failure's
\* message callback returns given the line formatter, and no expectation is
\* rendered; with a plain-string rejection and no rich failure in the list,
\* the returned error is the "expected ..." message and lists the string.
C19_RichFailureShortCircuits ==
    MatchFailed =>
        /\ RichFailures # {} =>
              /\ out.kind = "return"
              /\ \E e \in RichFailures :
                    out.error = errorMessage(Custom(e.msg), src.s, e.pos)
        /\ (RichFailures = {} /\ PlainString("p") \in Range(src.err)) =>
              /\ out.kind = "return"
              /\ out.error # NoError
              /\ out.error.msg.head = "expected"
              /\ "p" \in out.error.msg.expect

\* positions are counted from 0: the character at position p is s[p + 1]
NewlinesBefore(s, p) == Cardinality({i \in 1..p : s[i] = NewLine})

\* the start of the line that contains position p, and the position of the
\* newline that ends it (the length of s when there is none)
LineStart(s, p) == Max(0, CHOOSE i \in 0..p :
                            /\ i = 0 \/ s[i] = NewLine
                            /\ \A j \in (i + 1)..p : s[j] # NewLine)
LineEnd(s, p) == CHOOSE i \in p..Len(s) :
                    /\ i = Len(s) \/ s[i + 1] = NewLine
                    /\ \A j \in p..(i - 1) : s[j + 1] # NewLine

\* the number of spaces in front of the caret
CaretColumn(e) == 4 + e.indent

\* C20: for every input and every pos with 0 <= pos <= length, the message
\* parser.error formats has line number 1 + the number of newlines strictly
\* before pos, prints the line that contains pos, and puts the caret after
\* 4 + (pos - start of that line) spaces.
C20_LineAndCaret ==
    [][\A message \in Messages, pos \in 0..MaxTextLen :
          (ErrorCall(message, pos) /\ src # NoSource /\ pos <= Len(src.s)) =>
              /\ out'.kind = "return"
              /\ out'.error.ln = 1 + NewlinesBefore(src.s, pos)
              /\ out'.error.line = SubSeq(src.s, LineStart(src.s, pos) + 1,
                                          LineEnd(src.s, pos))
              /\ CaretColumn(out'.error) = 4 + (pos - LineStart(src.s, pos))]_vars

\* parser.error at the end of "b\na": line 2, the line "a", one space of
\* indent
C20_SecondLine ==
    /\ out.op = "error"
    /\ src.s = <<"b", NewLine, "a">>
    /\ out.error.ln = 2
    /\ out.error.line = <<"a">>
    /\ out.error.indent = 1

\* C21: once an error is recorded, every later next() and peek() returns an
\* EOF token, whatever was pushed back and whatever input remains; a later
\* error() call leaves the recorded error as it is, and message() renders
\* the recorded error at its token's position.
C21_ErrorLatches ==
    [][lexer.err # NoLexError =>
          /\ lexer'.err = lexer.err
          /\ lexer'.op \in {"next", "peek"} => lexer'.ret.type = "EOF"
          /\ lexer'.op = "message" =>
                lexer'.ret = errorMessage(Custom(lexer.err.reason), lexer.s,
                                          lexer.err.token.position)]_vars

\* next() returned EOF with an error recorded, a token other than EOF on the
\* stack of pushed-back tokens and input left to read
C21_EOFOverPushedBack ==
    /\ lexer.s # <<>>
    /\ lexer.err # NoLexError
    /\ lexer.op = "next"
    /\ lexer.ret.type = "EOF"
    /\ lexer.lastIndex < Len(lexer.s)
    /\ lexer.pushedBack # <<>>
    /\ lexer.pushedBack[Len(lexer.pushedBack)].type # "EOF"

\* the pattern written between the slashes of the REGEX token at position p
Written(s, p) == SubSeq(s, p + 2, BodyEnd(s, p + 1, "/"))

\* text with every capturing-group opener turned into "(?:": an escaped
\* character and a "(" that is followed by "?" stay as written
RECURSIVE NonCapturing(_)
NonCapturing(text) ==
    IF text = <<>> THEN <<>>
    ELSE IF text[1] = "\\" /\ Len(text) >= 2
    THEN <<text[1], text[2]>> \o NonCapturing(SubSeq(text, 3, Len(text)))
    ELSE IF text[1] = "(" /\ ~(Len(text) >= 2 /\ text[2] = "?")
    THEN <<"(", "?", ":">> \o NonCapturing(Tail(text))
    ELSE <<text[1]>> \o NonCapturing(Tail(text))

\* C22: the value of a REGEX token is the written pattern with every
\* capturing-group opener "(" turned into "(?:" and nothing else changed.
C22_EveryGroupNonCapturing ==
    (lexer.op \in {"next", "peek"} /\ lexer.ret.type = "REGEX") =>
        lexer.ret.value = NonCapturing(Written(lexer.s, lexer.ret.position))

\* C23: a matcher invocation that returns noMatch leaves the cursor where
\* it was when the invocation started.  The invocation observed is the one
\* Grammar.match makes: the start rule's Symbol, entered at 0.
C23_NoMatchRestoresCursor ==
    (MatchDone /\ src.ab = "" /\ out.exc \notin ConfigFailures /\ ~out.matched) =>
        src.pos = 0

\* C24: the furthest-failure position never decreases, every entry of the
\* expectation list is one that a Source.error call recorded at that
\* position, and a Source.error call with the cursor behind the position
\* changes neither the position nor the list.  The calls are those that can
\* follow on the source as a match left it, at every cursor.
C24_FurthestFailureRecord ==
    /\ \A i \in 1..Len(src.err) : src.err[i].e \in {"terminal", "string", "pf"}
    /\ \A p \in 0..src.len, keep \in {-1, 0, Len(src.err)} :
          LET S1 == SourceError([src EXCEPT !.pos = p], EndOfInput, keep)
          IN  /\ S1.errPos >= src.errPos
              /\ p < src.errPos => S1.err = src.err /\ S1.errPos = src.errPos

\* Grammar.check got past the tests for an empty grammar and undefined symbols
Analysed == pc # "new" /\ diag.kind \notin {"empty grammar", "no rule defined"}

\* C25: for a grammar with every rule defined the nullability fixpoint of
\* Grammar.check ends (the rules of the state are its result), leaves every
\* rule NO or YES and never UNKNOWN, and a rule it marks NO has a body that
\* cannot match the empty string under the per-kind rules
C25_NullabilityDecided ==
    Analysed =>
        \A i \in 1..Len(rules) :
            /\ rules[i].canMatchNothing \in {NO, YES}
            /\ rules[i].canMatchNothing = NO =>
                   /\ rules[i].name \notin NullableRules(rules)
                   /\ ~Nullable(rules[i].matcher, NullableRules(rules))

\* one rule decided NO, one decided YES by its body, and one the sweeps
\* left undecided and the default made YES
C25_DefaultedRule ==
    /\ Analysed
    /\ \E i, j, k \in 1..Len(rules) :
          /\ rules[i].canMatchNothing = NO
          /\ rules[j].canMatchNothing = YES
          /\ rules[j].name \in NullableRules(rules)
          /\ rules[k].canMatchNothing = YES
          /\ rules[k].name \notin NullableRules(rules)

\* the tokens the next n calls of next() deliver from lexer L
RECURSIVE Delivered(_, _)
Delivered(L, n) ==
    IF n = 0 THEN <<>>
    ELSE Let(LexerNext(L), LAMBDA L1 : <<L1.ret>> \o Delivered(L1, n - 1))

\* enough calls to replay every pushed-back token and read the source past
\* its end
Ahead(L) == Len(L.s) + Len(L.pushedBack) + 2

\* C26: with no error recorded, next() returns the token pushed back last
\* and not yet replayed, and reads no input while one is left; peek() returns
\* the token the following next() returns, and the tokens the next() calls
\* after it deliver are those they would have delivered without it
C26_PushBackAndPeek ==
    [][lexer.err = NoLexError =>
          /\ (lexer'.op = "next" /\ lexer.pushedBack # <<>>) =>
                /\ lexer'.ret = lexer.pushedBack[Len(lexer.pushedBack)]
                /\ lexer'.pushedBack =
                       SubSeq(lexer.pushedBack, 1, Len(lexer.pushedBack) - 1)
                /\ lexer'.lastIndex = lexer.lastIndex
          /\ \A t \in TokensFrom(NewLexer(lexer.s)) :
                LexerPushBackCall(t) =>
                    Delivered(lexer', Ahead(lexer) + 1) =
                        <<t>> \o Delivered(lexer, Ahead(lexer))
          /\ lexer'.op = "peek" =>
                /\ Delivered(lexer', 1) = <<lexer'.ret>>
                /\ Delivered(lexer', Ahead(lexer)) = Delivered(lexer, Ahead(lexer))]_vars

\* next() found two different tokens pushed back, read no input, returned
\* the one pushed back last and left the other one
C26_ReplayedLastPushedBack ==
    /\ lexer.err = NoLexError
    /\ lexer.op = "next"
    /\ lexer.lastIndex = 0
    /\ lexer.s # <<>>
    /\ lexer.ret.type # "EOF"
    /\ Len(lexer.pushedBack) = 1
    /\ lexer.pushedBack[1] # lexer.ret

\* C27: while only next() has been called (nothing pushed back, no error
\* recorded) the position of the token a next() returns is not before the
\* position of the token the previous next() returned, and after an EOF
\* token every next() returns EOF
C27_ReadsSourceOnce ==
    [][(lexer.plain /\ lexer.op = "next" /\ lexer'.plain) =>
          /\ lexer'.ret.position >= lexer.ret.position
          /\ lexer.ret.type = "EOF" => lexer'.ret.type = "EOF"]_vars

\* C28: a parser.actions(table) call that raises a configuration failure
\* leaves the parser as it was before the call: every Sequence and Predicate
\* keeps the function it had, and the record of whether actions have been
\* bound keeps its value
C28_RejectedTableChangesNothing ==
    [][\A A \in ActionTables :
          (ActionsCall(A) /\ out'.kind = "throw" /\ out'.exc \in ConfigFailures) =>
              rules' = rules /\ actionsCalled' = actionsCalled]_vars

\* C29: every keep count Source.error applied was at most the length of the
\* expectation list it was applied to, that is, no truncation lengthened
\* the list: neither the list a described rule's failure left nor the list
\* of the state holds an empty slot
C29_KeepWithinLength ==
    /\ \A i \in 1..Len(src.trace) :
          src.trace[i].ev = "described" =>
              \A j \in 1..Len(src.trace[i].after) : src.trace[i].after[j] # Hole
    /\ \A j \in 1..Len(src.err) : src.err[j] # Hole

\* C30: the left-recursion diagnostic is returned only for a grammar in
\* which some rule reaches its own Symbol through leftmost positions; a
\* grammar with no such rule is never rejected for left recursion, in
\* whatever order its rules are written
C30_OnlyLeftRecursionDiagnosed ==
    diag.kind = "left-recursion" => LeftRecursive(rules)

\* a grammar whose rules are recursive behind a Text only, with the rule
\* that is entered through a leftmost position written first or last, is
\* accepted: a = b | 'x', b = 'x' a and a = 'x' b, b = 'x' | a
C30_RightRecursionAccepted ==
    /\ pc = "ready"
    /\ diag = NoDiagnostic
    /\ ~LeftRecursive(rules)
    /\ \/ defs = <<CheckRule("a", <<Seq2(It(TextX), It(sSymbol("b")))>>),
                   CheckRule("b", <<Seq1(It(TextX)), Seq1(It(sSymbol("a")))>>)>>
       \/ defs = <<CheckRule("a", <<Seq1(It(TextX)), Seq1(It(sSymbol("b")))>>),
                   CheckRule("b", <<Seq2(It(TextX), It(sSymbol("a")))>>)>>

====
